---- MODULE Spec2Model ----
(***************************************************************************)
(* A model of motor_odm/document.py: the Mongo configuration merge done by *)
(* DocumentMetaclass, the per-class database / collection binding of       *)
(* Document, and the CRUD methods of Document run against a collection.    *)
(*                                                                         *)
(* Three specifications share the variables:                               *)
(*   SpecMeta     class declarations through DocumentMetaclass.__new__     *)
(*   SpecBinding  Document.use / Document.db / Document.collection         *)
(*   SpecCrud     the CRUD methods against one stored collection           *)
(***************************************************************************)
EXTENDS Integers, Sequences, FiniteSets, TLC

VARIABLES
    types,        \* class name -> [bases, ns, mongo]: the declared Document classes
    lastDecl,     \* the latest class statement and how it ended
    dbAttr,       \* class name -> the class's own __db__ attribute
    collAttr,     \* class name -> the class's own __collection__ attribute
    driverCalls,  \* number of get_collection calls the driver has served
    lastCall,     \* the latest use()/collection() call and what it returned
    instances,    \* in-memory record objects: reference -> [cls, id, x]
    store,        \* the stored collection: _id -> stored document
    last          \* the latest CRUD call: what was sent and what came back

vars == <<types, lastDecl, dbAttr, collAttr, driverCalls, lastCall, instances, store, last>>

metaVars == <<types, lastDecl>>
bindVars == <<dbAttr, collAttr, driverCalls, lastCall>>
crudVars == <<instances, store, last>>

-----------------------------------------------------------------------------
(* Bounds *)

\* how many classes a behaviour of SpecMeta declares besides Document
MaxTypes == 3
\* how many get_collection calls a behaviour of SpecBinding makes
MaxCalls == 3
\* how many record objects a behaviour of SpecCrud holds in memory
MaxInst == 2
\* how many distinct identifiers exist in a behaviour of SpecCrud
MaxIds == 2

-----------------------------------------------------------------------------
(* MongoBase and the Mongo merge *)

\* Python's None
None == "None"
\* an attribute that the class body does not assign
Absent == "<absent>"

Fields == {"collection", "codec_options", "read_preference", "write_concern", "read_concern"}

\* class MongoBase: collection is only annotated, the other four default to None
MongoBase == [f \in Fields |-> IF f = "collection" THEN Absent ELSE None]

\* a class body without an inner Mongo class: namespace.get("Mongo") is None
NoMongo == [f \in Fields |-> Absent]

\* helpers.inherit_class(name, self, *parents): overlay self's fields on the
\* parent's, field by field, skipping the fields self leaves unset or null
inherit_class(self, parent) ==
    [f \in Fields |-> IF self[f] \in {Absent, None} THEN parent[f] ELSE self[f]]

BaseModel == "BaseModel"
Document == "Document"

RECURSIVE issubclass(_, _, _)
issubclass(reg, c, d) ==
    \/ c = d
    \/ /\ c \in DOMAIN reg
       /\ \E i \in 1..Len(reg[c].bases) : issubclass(reg, reg[c].bases[i], d)

\* for base in reversed(bases): mongo = inherit_class("Mongo", base.__mongo__, mongo)
RECURSIVE MergeBases(_, _, _, _)
MergeBases(reg, bases, i, mongo) ==
    IF i = 0 THEN mongo
    ELSE LET base == bases[i] IN
         MergeBases(reg, bases, i - 1,
                    IF base # BaseModel /\ base # Document /\ issubclass(reg, base, Document)
                    THEN inherit_class(reg[base].mongo, mongo)
                    ELSE mongo)

\* the class's own Mongo is merged last, over everything the bases gave
MergeNamespaceSwapped(ns, merged) == inherit_class(merged, ns)
MergeNamespace(ns, merged) == inherit_class(ns, merged)

\* the collection check, skipped only for motor_odm.document.Document itself
RaisesNoCollectionNever(name, mongo) == FALSE
RaisesNoCollection(name, mongo) ==
    name # Document /\ mongo["collection"] = Absent

\* DocumentMetaclass.__new__: the merged Mongo, or the TypeError
DocumentMetaclass_new(reg, name, bases, ns) ==
    LET mongo == MergeNamespace(ns, MergeBases(reg, bases, Len(bases), MongoBase)) IN
    IF RaisesNoCollection(name, mongo)
    THEN [raised |-> "TypeError", mongo |-> mongo]
    ELSE [raised |-> "no", mongo |-> mongo]

\* the registry after a successful class statement
Register(reg, name, bases, ns) ==
    reg @@ (name :> [bases |-> bases, ns |-> ns,
                     mongo |-> DocumentMetaclass_new(reg, name, bases, ns).mongo])

\* class Document(BaseModel, metaclass=DocumentMetaclass), at import
DocumentOnly == Register(<<>>, Document, <<BaseModel>>, NoMongo)

-----------------------------------------------------------------------------
(* SpecMeta: class statements *)

TypeNames == <<"T1", "T2", "T3", "T4", "T5">>

NumDeclared == Cardinality(DOMAIN types) - 1

\* the inner Mongo classes a class statement may carry: none, one field
\* assigned (to a value of its own, named after the class, or to None), or
\* all five assigned alike
MongoDecls(name) ==
    {NoMongo}
    \cup {[f \in Fields |-> IF f = g THEN v ELSE Absent] : g \in Fields, v \in {name, None}}
    \cup {[f \in Fields |-> v] : v \in {name, None}}

RECURSIVE Ancestors(_, _)
Ancestors(reg, c) ==
    IF c \notin DOMAIN reg THEN {}
    ELSE LET bs == {reg[c].bases[i] : i \in 1..Len(reg[c].bases)} IN
         bs \cup UNION {Ancestors(reg, b) : b \in bs}

\* the base lists of a class statement: Document, one declared class, or two
\* declared classes in an order Python can linearize
BaseLists ==
    LET declared == DOMAIN types \ {Document} IN
    {<<Document>>}
    \cup {<<b>> : b \in declared}
    \cup {pr \in declared \X declared :
              pr[1] # pr[2] /\ pr[1] \notin Ancestors(types, pr[2])}

DeclareType(bases, ns) ==
    /\ NumDeclared < MaxTypes
    /\ LET name == TypeNames[NumDeclared + 1]
           r == DocumentMetaclass_new(types, name, bases, ns) IN
       /\ lastDecl' = [name |-> name, bases |-> bases, ns |-> ns, raised |-> r.raised]
       /\ types' = IF r.raised = "no" THEN Register(types, name, bases, ns) ELSE types
    /\ UNCHANGED <<bindVars, crudVars>>

NoDecl == [name |-> Document, bases |-> <<BaseModel>>, ns |-> NoMongo, raised |-> "no"]

InitMeta ==
    /\ types = DocumentOnly
    /\ lastDecl = NoDecl
    /\ dbAttr = <<>> /\ collAttr = <<>> /\ driverCalls = 0 /\ lastCall = <<>>
    /\ instances = <<>> /\ store = <<>> /\ last = <<>>

NextMeta ==
    \E bases \in BaseLists :
        \E ns \in MongoDecls(TypeNames[NumDeclared + 1]) : DeclareType(bases, ns)

SpecMeta == InitMeta /\ [][NextMeta]_vars

\* C3: along every chain of classes, each field of a class's effective Mongo is
\* the value assigned by the deepest class of the chain that assigned it a
\* non-null value (MongoBase's default if none did), and a field the class
\* body does not assign keeps the value its base has.
IsSet(v) == v \notin {Absent, None}

RECURSIVE IsChain(_)
IsChain(t) ==
    \/ t = Document
    \/ /\ Len(types[t].bases) = 1
       /\ IsChain(types[t].bases[1])

RECURSIVE DeepestSet(_, _)
DeepestSet(t, f) ==
    IF t = Document THEN MongoBase[f]
    ELSE IF IsSet(types[t].ns[f]) THEN types[t].ns[f]
    ELSE DeepestSet(types[t].bases[1], f)

C3_DeepestOverrideWins ==
    \A t \in DOMAIN types \ {Document} :
        IsChain(t) =>
            \A f \in Fields :
                /\ types[t].mongo[f] = DeepestSet(t, f)
                /\ types[t].ns[f] = Absent =>
                       types[t].mongo[f] = types[types[t].bases[1]].mongo[f]

\* a chain of three declared classes: the two shallower ones both assign a
\* field, the deepest assigns it too or leaves it out, and the nearest wins
C3_Witness ==
    \E t \in DOMAIN types \ {Document} :
        /\ IsChain(t)
        /\ LET p == types[t].bases[1] IN
           /\ p # Document
           /\ types[p].bases[1] # Document
           /\ LET g == types[p].bases[1] IN
              /\ IsSet(types[g].ns["collection"])
              /\ IsSet(types[p].ns["collection"])
              /\ IsSet(types[t].ns["collection"])
              /\ types[t].mongo["collection"] = t
              /\ IsSet(types[g].ns["write_concern"])
              /\ types[p].ns["write_concern"] = Absent
              /\ types[t].ns["write_concern"] = Absent
              /\ types[t].mongo["write_concern"] = g

\* C4: no declared class other than Document has an unset or null effective
\* collection, and a class statement whose own Mongo and whose ancestors'
\* Mongos all leave collection unassigned ends in TypeError and declares
\* nothing.
ChainAssignsCollection(bases, ns) ==
    LET bs == {bases[i] : i \in 1..Len(bases)}
        anc == bs \cup UNION {Ancestors(types, b) : b \in bs} IN
    \/ IsSet(ns["collection"])
    \/ \E a \in anc \cap DOMAIN types : IsSet(types[a].ns["collection"])

C4_ConcreteTypeHasCollection ==
    /\ \A t \in DOMAIN types \ {Document} : IsSet(types[t].mongo["collection"])
    /\ (lastDecl.name # Document /\ ~ChainAssignsCollection(lastDecl.bases, lastDecl.ns)) =>
           (lastDecl.raised = "TypeError" /\ lastDecl.name \notin DOMAIN types)

\* a class statement deriving from a declared class, with no collection
\* anywhere in its chain, has just been rejected
C4_Witness ==
    /\ lastDecl.raised = "TypeError"
    /\ lastDecl.name \notin DOMAIN types
    /\ NumDeclared >= 1
    /\ ~ChainAssignsCollection(lastDecl.bases, lastDecl.ns)

-----------------------------------------------------------------------------
(* SpecBinding: use(), db() and collection() on a fixed family of classes *)

\* class A(Document): Mongo.collection = "a", Mongo.write_concern = "w1"
\* class B(A):        Mongo.collection = "b"
\* class C(Document): Mongo.collection = "a"    (the same physical name as A)
MongoOf(coll, wc) ==
    [f \in Fields |-> IF f = "collection" THEN coll
                      ELSE IF f = "write_concern" THEN wc ELSE Absent]

FamilyTypes ==
    Register(Register(Register(DocumentOnly,
        "A", <<Document>>, MongoOf("a", "w1")),
        "B", <<"A">>, MongoOf("b", Absent)),
        "C", <<Document>>, MongoOf("a", Absent))

Databases == {"db1", "db2"}

NoAttr == [kind |-> "absent"]
NoneValue == [kind |-> "None"]

\* attribute lookup along the class's bases (the family is singly inherited,
\* so the method resolution order is the chain of first bases)
RECURSIVE getattr(_, _)
getattr(attr, cls) ==
    IF cls \notin DOMAIN attr THEN NoAttr
    ELSE IF attr[cls] # NoAttr THEN attr[cls]
    ELSE getattr(attr, types[cls].bases[1])

\* Document.db(): the looked-up __db__, or AttributeError
db(attr, cls) ==
    LET d == getattr(attr, cls) IN
    IF d = NoAttr THEN [raised |-> "AttributeError"]
    ELSE [raised |-> "no", value |-> d.db]

\* Document.use(db)
use(cls, database) ==
    /\ dbAttr' = [dbAttr EXCEPT ![cls] = [kind |-> "db", db |-> database]]
    /\ lastCall' = [op |-> "use", cls |-> cls, raised |-> "no"]
    /\ UNCHANGED <<collAttr, driverCalls, metaVars, crudVars>>

\* cls.__collection__ is None or cls.__collection__.database is not cls.db()
NeedsNewHandleIgnoringDb(cached, current) == cached = NoneValue
NeedsNewHandle(cached, current) ==
    cached = NoneValue \/ cached.database # current

\* the driver's db.get_collection(name, codec_options=..., ...): a new handle
get_collection(database, meta, serial) ==
    [kind |-> "handle", serial |-> serial, database |-> database,
     name |-> meta["collection"],
     codec_options |-> meta["codec_options"],
     read_preference |-> meta["read_preference"],
     write_concern |-> meta["write_concern"],
     read_concern |-> meta["read_concern"]]

\* Document.collection()
collection(cls) ==
    LET meta == types[cls].mongo
        cached == getattr(collAttr, cls)
        current == db(dbAttr, cls) IN
    /\ UNCHANGED <<dbAttr, metaVars, crudVars>>
    /\ IF current.raised # "no" \/ (NeedsNewHandle(cached, current.value) /\ meta["collection"] = Absent)
       THEN /\ lastCall' = [op |-> "collection", cls |-> cls, raised |-> "AttributeError"]
            /\ UNCHANGED <<collAttr, driverCalls>>
       ELSE IF NeedsNewHandle(cached, current.value)
       THEN /\ driverCalls < MaxCalls
            /\ LET h == get_collection(current.value, meta, driverCalls + 1) IN
               /\ collAttr' = [collAttr EXCEPT ![cls] = h]
               /\ driverCalls' = driverCalls + 1
               /\ lastCall' = [op |-> "collection", cls |-> cls, raised |-> "no", result |-> h]
       ELSE /\ lastCall' = [op |-> "collection", cls |-> cls, raised |-> "no", result |-> cached]
            /\ UNCHANGED <<collAttr, driverCalls>>

InitBinding ==
    /\ types = FamilyTypes
    /\ lastDecl = NoDecl
    /\ dbAttr = [c \in DOMAIN FamilyTypes |-> NoAttr]
    /\ collAttr = [c \in DOMAIN FamilyTypes |-> IF c = Document THEN NoneValue ELSE NoAttr]
    /\ driverCalls = 0
    /\ lastCall = [op |-> "import", cls |-> Document, raised |-> "no"]
    /\ instances = <<>> /\ store = <<>> /\ last = <<>>

NextBinding ==
    \/ \E cls \in DOMAIN types, database \in Databases : use(cls, database)
    \/ \E cls \in DOMAIN types : collection(cls)

SpecBinding == InitBinding /\ [][NextBinding]_vars

\* C1: a successful collection() call on a class returns the class's own
\* cached handle, opened with the name and the codec/read/write settings of
\* the class's own effective Mongo.
C1_TypeOwnsItsBinding ==
    (lastCall.op = "collection" /\ lastCall.raised = "no") =>
        LET cls == lastCall.cls
            h == lastCall.result
            meta == types[cls].mongo IN
        /\ collAttr[cls] = h
        /\ h.name = meta["collection"]
        /\ h.codec_options = meta["codec_options"]
        /\ h.read_preference = meta["read_preference"]
        /\ h.write_concern = meta["write_concern"]
        /\ h.read_concern = meta["read_concern"]

\* C2: a successful collection() call returns a handle of the database the
\* class is bound to; it returns the cached handle and leaves the driver
\* alone when that handle was made against this database, and otherwise has
\* the driver make one more handle against it, which it caches and returns.
C2_HandleFollowsDatabase ==
    [][(lastCall'.op = "collection" /\ lastCall'.raised = "no") =>
        LET cls == lastCall'.cls
            h == lastCall'.result
            cached == getattr(collAttr, cls)
            current == getattr(dbAttr', cls).db IN
        /\ h.database = current
        /\ getattr(collAttr', cls) = h
        /\ IF cached.kind = "handle" /\ cached.database = current
           THEN h = cached /\ driverCalls' = driverCalls /\ collAttr' = collAttr
           ELSE /\ driverCalls' = driverCalls + 1
                /\ h.serial = driverCalls'
                /\ collAttr'[cls] = h
                /\ \A c \in DOMAIN collAttr : collAttr[c] # h
    ]_vars

\* a class was rebound to another database after it cached a handle, and its
\* next collection() call came back with a handle of the new database: the
\* driver has made two handles or more and this class alone holds one
C2_Witness ==
    /\ lastCall.op = "collection"
    /\ lastCall.raised = "no"
    /\ lastCall.result.serial >= 2
    /\ collAttr[lastCall.cls] = lastCall.result
    /\ \A c \in DOMAIN collAttr \ {lastCall.cls} : collAttr[c] \in {NoAttr, NoneValue}
    /\ lastCall.result.database = "db2"
    /\ getattr(dbAttr, lastCall.cls).db = "db2"

-----------------------------------------------------------------------------
(* SpecCrud: the CRUD methods, run against one stored collection *)

\* class A(Document): Mongo.collection = "a";  class B(A): pass;
\* class C(Document): Mongo.collection = "a".  All three resolve to the one
\* physical collection "a" of db1, whose documents the variable store holds.
\* Each class declares one more field next to id:   x: str = "d"
CrudTypes ==
    Register(Register(Register(DocumentOnly,
        "A", <<Document>>, MongoOf("a", Absent)),
        "B", <<"A">>, NoMongo),
        "C", <<Document>>, MongoOf("a", Absent))

Classes == {"A", "B", "C"}
\* the classes the class methods are called on
CallClasses == {"A", "C"}

IdNames == <<"o1", "o2", "o3", "o4">>
Ids == {IdNames[n] : n \in 1..MaxIds}

\* the class of each record object held in memory
InstClass == <<"B", "C", "A", "B">>
Inst == 1..MaxInst

Default == "d"
XVals == {Default, "v"}

\* a partial document, a filter or a stored document: a mapping over the
\* keys _id and x, where Absent marks a key the mapping does not have
Doc(id, x) == [id |-> id, x |-> x]
NoDoc == [kind |-> "None"]
\* the filters used: None, {"_id": id} and {"x": "v"}
Filters == {Doc(i, Absent) : i \in Ids \cup {Absent}} \cup {Doc(Absent, "v")}
\* the raw replacement mapping used: {"x": "v"}
RawMappings == {Doc(Absent, "v")}

\* self.dict(by_alias=True, exclude_defaults=True)
dict_exclude_defaults(rec) ==
    Doc(IF rec.id = None THEN Absent ELSE rec.id,
        IF rec.x = Default THEN Absent ELSE rec.x)

\* Document.mongo(): the dict, with "_id" popped when self.id is None
mongo(rec) ==
    LET document == dict_exclude_defaults(rec) IN
    IF rec.id = None THEN [document EXCEPT !.id = Absent] ELSE document

\* cls(**doc): validation fills the keys the document lacks with the defaults
Construct(cls, doc) ==
    [cls |-> cls,
     id |-> IF doc.id = Absent THEN None ELSE doc.id,
     x |-> IF doc.x = Absent THEN Default ELSE doc.x]

isinstance(rec, cls) == issubclass(types, rec.cls, cls)

\* the handle a CRUD method works on: cls.collection(). Every class was
\* bound and cached its handle before the first CRUD call, so the call is a
\* cache hit on the collection "a" of db1 and changes nothing.
Bound(cls) ==
    LET cached == getattr(collAttr, cls)
        current == db(dbAttr, cls) IN
    /\ current.raised = "no"
    /\ ~NeedsNewHandle(cached, current.value)
    /\ cached.name = "a"

\* ---- the driver, on the stored collection --------------------------------

Matches(filter, doc) ==
    /\ filter.id = Absent \/ filter.id = doc.id
    /\ filter.x = Absent \/ filter.x = doc.x

Matching(filter) == {store[i] : i \in {j \in DOMAIN store : Matches(filter, store[j])}}

\* identifiers the driver may generate: new ones, held nowhere
FreshIds == (Ids \ DOMAIN store) \ {instances[i].id : i \in Inst}

Put(st, doc) == [i \in DOMAIN st \cup {doc.id} |-> IF i = doc.id THEN doc ELSE st[i]]
Remove(st, id) == [i \in DOMAIN st \ {id} |-> st[i]]

\* the update documents used: {"$set": {"x": "v"}} and {"$unset": {"x": ""}}
Updates == {"set", "unset"}
ApplyUpdate(doc, update) == [doc EXCEPT !.x = IF update = "set" THEN "v" ELSE Absent]

NoneRet == [kind |-> "None"]
Fresh(rec) == [kind |-> "fresh", rec |-> rec]
Ref(i) == [kind |-> "ref", inst |-> i]

crudFrame == UNCHANGED <<metaVars, bindVars>>

\* ---- insert ----------------------------------------------------------------

\* self.id = result.inserted_id
insert_bind_id_dropped(rec, inserted_id) == rec
insert_bind_id(rec, inserted_id) == [rec EXCEPT !.id = inserted_id]

insert(i) ==
    LET self == instances[i]
        sent == mongo(self) IN
    /\ Bound(self.cls)
    /\ crudFrame
    /\ IF sent.id # Absent /\ sent.id \in DOMAIN store
       THEN /\ last' = [op |-> "insert", self |-> i, raised |-> "DuplicateKeyError", sent |-> sent]
            /\ UNCHANGED <<instances, store>>
       ELSE \E new \in (IF sent.id = Absent THEN FreshIds ELSE {sent.id}) :
            /\ store' = Put(store, [sent EXCEPT !.id = new])
            /\ instances' = [instances EXCEPT ![i] = insert_bind_id(self, new)]
            /\ last' = [op |-> "insert", self |-> i, raised |-> "no", sent |-> sent,
                        inserted_id |-> new]

\* ---- insert_many -------------------------------------------------------------

\* the driver's ordered insert_many: documents go in one by one until one
\* collides; the result is the store, the ids given so far and the error
RECURSIVE InsertManyRuns(_, _, _, _)
InsertManyRuns(docs, n, st, ids) ==
    IF n > Len(docs) THEN {[store |-> st, ids |-> ids, raised |-> "no"]}
    ELSE IF docs[n].id # Absent /\ docs[n].id \in DOMAIN st
    THEN {[store |-> st, ids |-> ids, raised |-> "BulkWriteError"]}
    ELSE UNION {InsertManyRuns(docs, n + 1, Put(st, [docs[n] EXCEPT !.id = new]),
                               Append(ids, new)) :
                new \in (IF docs[n].id = Absent
                         THEN FreshIds \ ({ids[k] : k \in 1..Len(ids)} \cup DOMAIN st)
                         ELSE {docs[n].id})}

\* for obj, inserted_id in zip(objects, result.inserted_ids): obj.id = inserted_id
RECURSIVE ZipBind(_, _, _, _)
ZipBind(insts, objects, ids, n) ==
    IF n > Len(objects) THEN insts
    ELSE ZipBind([insts EXCEPT ![objects[n]] = insert_bind_id(@, ids[n])], objects, ids, n + 1)

ObjectLists == {<<i>> : i \in Inst} \cup {<<i, j>> : i \in Inst, j \in Inst}

insert_many(cls, objects) ==
    LET docs == [n \in 1..Len(objects) |-> mongo(instances[objects[n]])] IN
    /\ Bound(cls)
    /\ crudFrame
    /\ \E run \in InsertManyRuns(docs, 1, store, <<>>) :
        /\ store' = run.store
        /\ instances' = IF run.raised = "no" THEN ZipBind(instances, objects, run.ids, 1)
                        ELSE instances
        /\ last' = [op |-> "insert_many", raised |-> run.raised]

\* ---- replace -------------------------------------------------------------------

\* the driver's replace_one(filter, replacement, upsert=...), and
\* find_one_and_replace alike: the outcomes on the stored collection
ReplaceRuns(filter, replacement, upsert) ==
    LET ms == Matching(filter) IN
    IF ms # {}
    THEN {IF replacement.id # Absent /\ replacement.id # m.id
          THEN [raised |-> "WriteError", store |-> store, upserted_id |-> None,
                before |-> NoDoc, after |-> NoDoc]
          ELSE [raised |-> "no", store |-> Put(store, [replacement EXCEPT !.id = m.id]),
                upserted_id |-> None, before |-> m,
                after |-> [replacement EXCEPT !.id = m.id]] : m \in ms}
    ELSE IF ~upsert
    THEN {[raised |-> "no", store |-> store, upserted_id |-> None,
           before |-> NoDoc, after |-> NoDoc]}
    ELSE IF replacement.id # Absent /\ filter.id # Absent /\ replacement.id # filter.id
    THEN {[raised |-> "WriteError", store |-> store, upserted_id |-> None,
           before |-> NoDoc, after |-> NoDoc]}
    ELSE LET news == IF replacement.id # Absent THEN {replacement.id}
                     ELSE IF filter.id # Absent THEN {filter.id}
                     ELSE FreshIds IN
         {IF new \in DOMAIN store
          THEN [raised |-> "DuplicateKeyError", store |-> store, upserted_id |-> None,
                before |-> NoDoc, after |-> NoDoc]
          ELSE [raised |-> "no", store |-> Put(store, [replacement EXCEPT !.id = new]),
                upserted_id |-> new, before |-> NoDoc,
                after |-> [replacement EXCEPT !.id = new]] : new \in news}

\* if result.upserted_id: replace.id = result.upserted_id
\* elif replace.id is None: replace.id = self.id
replace_bind_id_no_upsert(self, other, upserted_id) ==
    IF other.id = None THEN [other EXCEPT !.id = self.id] ELSE other
replace_bind_id_always_self(self, other, upserted_id) ==
    IF upserted_id # None THEN [other EXCEPT !.id = upserted_id]
    ELSE [other EXCEPT !.id = self.id]
replace_bind_id(self, other, upserted_id) ==
    IF upserted_id # None THEN [other EXCEPT !.id = upserted_id]
    ELSE IF other.id = None THEN [other EXCEPT !.id = self.id]
    ELSE other

replace(i, o, upsert) ==
    LET self == instances[i]
        other == instances[o]
        sent == mongo(other) IN
    /\ Bound(self.cls)
    /\ crudFrame
    /\ \E run \in ReplaceRuns(mongo(self), sent, upsert) :
        /\ store' = run.store
        /\ IF run.raised # "no"
           THEN /\ UNCHANGED instances
                /\ last' = [op |-> "replace", self |-> i, other |-> o, raised |-> run.raised,
                            sent |-> sent]
           ELSE /\ instances' = [instances EXCEPT ![o] = replace_bind_id(self, other, run.upserted_id)]
                /\ last' = [op |-> "replace", self |-> i, other |-> o, raised |-> "no",
                            sent |-> sent, upserted_id |-> run.upserted_id, ret |-> Ref(o)]

\* ---- reload, update, delete ------------------------------------------------------

\* object.__setattr__(obj, "__dict__", updated.__dict__): the object keeps its
\* identity and class and takes over the field values of updated
setattr_dict_kept(rec, updated) == rec
setattr_dict(rec, updated) == [rec EXCEPT !.id = updated.id, !.x = updated.x]

\* the body of reload() against a store: find_one({"_id": self.id}), construct,
\* swap; a missing document makes self.__class__(**None) raise TypeError
ReloadAgainst(st, self) ==
    IF self.id \notin DOMAIN st
    THEN [raised |-> "TypeError", rec |-> self]
    ELSE [raised |-> "no", rec |-> setattr_dict(self, Construct(self.cls, st[self.id]))]

reload(i) ==
    LET self == instances[i] IN
    /\ crudFrame
    /\ UNCHANGED store
    /\ IF self.id = None
       THEN /\ last' = [op |-> "reload", self |-> i, raised |-> "AssertionError", pre |-> self]
            /\ UNCHANGED instances
       ELSE /\ Bound(self.cls)
            /\ LET r == ReloadAgainst(store, self) IN
               /\ instances' = [instances EXCEPT ![i] = r.rec]
               /\ last' = [op |-> "reload", self |-> i, raised |-> r.raised, pre |-> self]

update(i, upd, doReload) ==
    LET self == instances[i] IN
    /\ crudFrame
    /\ IF self.id = None
       THEN /\ last' = [op |-> "update", raised |-> "AssertionError"]
            /\ UNCHANGED <<instances, store>>
       ELSE /\ Bound(self.cls)
            /\ LET found == self.id \in DOMAIN store
                   st == IF found THEN Put(store, ApplyUpdate(store[self.id], upd)) ELSE store
                   modified == found /\ st[self.id] # store[self.id]
                   r == IF doReload THEN ReloadAgainst(st, self)
                        ELSE [raised |-> "no", rec |-> self] IN
               /\ store' = st
               /\ instances' = [instances EXCEPT ![i] = r.rec]
               /\ last' = IF r.raised = "no"
                          THEN [op |-> "update", raised |-> "no", ret |-> modified]
                          ELSE [op |-> "update", raised |-> r.raised]

delete(i) ==
    LET self == instances[i]
        ms == Matching(mongo(self)) IN
    /\ Bound(self.cls)
    /\ crudFrame
    /\ UNCHANGED instances
    /\ IF ms = {}
       THEN /\ UNCHANGED store
            /\ last' = [op |-> "delete", raised |-> "no", ret |-> FALSE]
       ELSE \E m \in ms :
            /\ store' = Remove(store, m.id)
            /\ last' = [op |-> "delete", raised |-> "no", ret |-> TRUE]

\* ---- the find methods ---------------------------------------------------------------

\* what the driver's find_one family hands back: a matching document, or None
FoundDocs(filter) == IF Matching(filter) = {} THEN {NoDoc} ELSE Matching(filter)

\* cls(**doc) if doc else None
construct_always(cls, doc) ==
    IF doc = NoDoc THEN [raised |-> "TypeError", ret |-> NoneRet]
    ELSE [raised |-> "no", ret |-> Fresh(Construct(cls, doc))]
construct_or_none(cls, doc) ==
    IF doc = NoDoc THEN [raised |-> "no", ret |-> NoneRet]
    ELSE [raised |-> "no", ret |-> Fresh(Construct(cls, doc))]

find(cls, filter) ==
    /\ Bound(cls)
    /\ crudFrame
    /\ UNCHANGED <<instances, store>>
    /\ last' = [op |-> "find", found |-> Matching(filter), raised |-> "no",
                ret |-> [kind |-> "list", recs |-> {Construct(cls, d) : d \in Matching(filter)}]]

find_one(cls, filter) ==
    /\ Bound(cls)
    /\ crudFrame
    /\ UNCHANGED <<instances, store>>
    /\ \E doc \in FoundDocs(filter) :
        LET r == construct_or_none(cls, doc) IN
        last' = [op |-> "find_one", found |-> doc, raised |-> r.raised, ret |-> r.ret]

find_one_and_delete(cls, filter) ==
    /\ Bound(cls)
    /\ crudFrame
    /\ UNCHANGED instances
    /\ \E doc \in FoundDocs(filter) :
        LET r == construct_or_none(cls, doc) IN
        /\ store' = IF doc = NoDoc THEN store ELSE Remove(store, doc.id)
        /\ last' = [op |-> "find_one_and_delete", found |-> doc, raised |-> r.raised,
                    ret |-> r.ret]

find_one_and_update(cls, filter, upd) ==
    /\ Bound(cls)
    /\ crudFrame
    /\ UNCHANGED instances
    /\ \E doc \in FoundDocs(filter) :
        LET r == construct_or_none(cls, doc) IN
        /\ store' = IF doc = NoDoc THEN store ELSE Put(store, ApplyUpdate(doc, upd))
        /\ last' = [op |-> "find_one_and_update", found |-> doc, raised |-> r.raised,
                    ret |-> r.ret]

\* the replacement argument: a record object held in memory, or a raw mapping
Replacements ==
    {[kind |-> "inst", inst |-> i] : i \in Inst}
    \cup {[kind |-> "raw", doc |-> d] : d \in RawMappings}

\* return_document == ReturnDocument.AFTER and isinstance(replacement, cls)
in_place_any_view(return_document, replacement, cls) ==
    replacement.kind = "inst" /\ isinstance(instances[replacement.inst], cls)
in_place(return_document, replacement, cls) ==
    /\ return_document = "AFTER"
    /\ replacement.kind = "inst"
    /\ isinstance(instances[replacement.inst], cls)

find_one_and_replace(cls, filter, replacement, return_document) ==
    LET data == IF replacement.kind = "inst" THEN mongo(instances[replacement.inst])
                ELSE replacement.doc
        call == [op |-> "find_one_and_replace", cls |-> cls, replacement |-> replacement,
                 return_document |-> return_document] IN
    /\ Bound(cls)
    /\ crudFrame
    /\ \E run \in ReplaceRuns(filter, data, FALSE) :
        LET result == IF return_document = "AFTER" THEN run.after ELSE run.before IN
        /\ store' = run.store
        /\ IF run.raised # "no"
           THEN /\ UNCHANGED instances
                /\ last' = call @@ [raised |-> run.raised, found |-> [kind |-> "raised"]]
           ELSE IF result = NoDoc
           THEN /\ UNCHANGED instances
                /\ last' = call @@ [raised |-> "no", found |-> NoDoc, ret |-> NoneRet]
           ELSE LET instance == Construct(cls, result) IN
                IF in_place(return_document, replacement, cls)
                THEN /\ instances' = [instances EXCEPT ![replacement.inst] = setattr_dict(@, instance)]
                     /\ last' = call @@ [raised |-> "no", found |-> result,
                                          ret |-> Ref(replacement.inst)]
                ELSE /\ UNCHANGED instances
                     /\ last' = call @@ [raised |-> "no", found |-> result,
                                          ret |-> Fresh(instance)]

\* ---- another client of the database ----------------------------------------------------

\* a stored document is changed, created or removed behind the records' back
OutOfBand ==
    /\ crudFrame
    /\ UNCHANGED instances
    /\ last' = [op |-> "out_of_band", raised |-> "no"]
    /\ \/ \E i \in DOMAIN store, upd \in Updates :
              /\ ApplyUpdate(store[i], upd) # store[i]
              /\ store' = Put(store, ApplyUpdate(store[i], upd))
       \/ \E i \in DOMAIN store : store' = Remove(store, i)
       \/ \E i \in Ids \ DOMAIN store, v \in {Absent, "v"} : store' = Put(store, Doc(i, v))

\* ---- the specification -------------------------------------------------------------------

\* Document.use(db1), then collection() on each class, a subclass before its
\* base, so that each class holds a handle of its own
WarmOrder == <<"B", "A", "C">>

InitCrud ==
    /\ types = CrudTypes
    /\ lastDecl = NoDecl
    /\ dbAttr = [c \in DOMAIN CrudTypes |->
                    IF c = Document THEN [kind |-> "db", db |-> "db1"] ELSE NoAttr]
    /\ collAttr = [c \in DOMAIN CrudTypes |->
                    IF c = Document THEN NoneValue
                    ELSE get_collection("db1", CrudTypes[c].mongo,
                                        CHOOSE n \in 1..Len(WarmOrder) : WarmOrder[n] = c)]
    /\ driverCalls = Len(WarmOrder)
    /\ lastCall = [op |-> "collection", cls |-> WarmOrder[Len(WarmOrder)], raised |-> "no"]
    /\ instances \in [Inst -> [cls : Classes, id : Ids \cup {None}, x : XVals]]
    /\ \A i \in Inst : instances[i].cls = InstClass[i]
    /\ store = <<>>
    /\ last = [op |-> "start", raised |-> "no"]

NextCrud ==
    \/ \E i \in Inst : insert(i)
    \/ \E cls \in CallClasses, objects \in ObjectLists : insert_many(cls, objects)
    \/ \E i \in Inst, o \in Inst, upsert \in BOOLEAN : replace(i, o, upsert)
    \/ \E i \in Inst, upd \in Updates, doReload \in BOOLEAN : update(i, upd, doReload)
    \/ \E i \in Inst : reload(i)
    \/ \E i \in Inst : delete(i)
    \/ \E cls \in CallClasses, filter \in Filters : find(cls, filter)
    \/ \E cls \in CallClasses, filter \in Filters : find_one(cls, filter)
    \/ \E cls \in CallClasses, filter \in Filters : find_one_and_delete(cls, filter)
    \/ \E cls \in CallClasses, filter \in Filters, upd \in Updates :
           find_one_and_update(cls, filter, upd)
    \/ \E cls \in CallClasses, filter \in Filters, replacement \in Replacements,
          return_document \in {"BEFORE", "AFTER"} :
           find_one_and_replace(cls, filter, replacement, return_document)
    \/ OutOfBand

SpecCrud == InitCrud /\ [][NextCrud]_vars

-----------------------------------------------------------------------------
(* The CRUD claims *)

\* C5: an insert of a record whose id is None sends a document without the
\* _id key, and when it returns the same object holds a non-null id, the
\* inserted_id of the driver's result, under which the document is stored.
C5_InsertBindsIdentifier ==
    [][(last'.op = "insert" /\ last'.raised = "no" /\ instances[last'.self].id = None) =>
        /\ last'.sent.id = Absent
        /\ last'.inserted_id \in Ids
        /\ instances'[last'.self].id = last'.inserted_id
        /\ last'.inserted_id \in DOMAIN store'
        /\ last'.inserted_id \notin DOMAIN store
    ]_vars

\* an insert that sent no _id has returned and the record holds the new id
C5_Witness ==
    /\ last.op = "insert"
    /\ last.raised = "no"
    /\ last.sent.id = Absent
    /\ instances[last.self].id = last.inserted_id
    /\ last.inserted_id \in DOMAIN store

\* C6: when replace(self, other) returns, other.id is the upserted id if the
\* driver reported one; otherwise self's id if other had none; otherwise
\* what it was. The value returned is other.
C6_ReplaceBindsIdentifier ==
    [][(last'.op = "replace" /\ last'.raised = "no") =>
        LET i == last'.self
            o == last'.other IN
        /\ last'.ret = Ref(o)
        /\ instances'[o].id =
               IF last'.upserted_id # None THEN last'.upserted_id
               ELSE IF instances[o].id = None THEN instances[i].id
               ELSE instances[o].id
        /\ last'.upserted_id # None =>
               /\ Matching(mongo(instances[i])) = {}
               /\ last'.upserted_id \in DOMAIN store' \ DOMAIN store
    ]_vars

\* a replace on two different records upserted, and the replacement, which
\* had no id, now holds the upserted id
C6_Witness ==
    /\ last.op = "replace"
    /\ last.raised = "no"
    /\ last.self # last.other
    /\ last.upserted_id # None
    /\ last.sent.id = Absent
    /\ instances[last.other].id = last.upserted_id

\* C7: a reload that returns leaves the record's id as it was and gives the
\* same object the field values of the stored document of that id; no other
\* record changes.
C7_ReloadRefreshesInPlace ==
    [][(last'.op = "reload" /\ last'.raised = "no") =>
        LET i == last'.self IN
        /\ instances[i].id # None
        /\ instances'[i].id = instances[i].id
        /\ instances'[i].cls = instances[i].cls
        /\ instances[i].id \in DOMAIN store
        /\ instances'[i].x = (IF store[instances[i].id].x = Absent THEN Default
                              ELSE store[instances[i].id].x)
        /\ \A j \in Inst \ {i} : instances'[j] = instances[j]
    ]_vars

\* a reload has changed a field of the record it was called on
C7_Witness ==
    /\ last.op = "reload"
    /\ last.raised = "no"
    /\ last.pre.x # instances[last.self].x
    /\ last.pre.id = instances[last.self].id

\* C8: when find_one_and_replace gets a document back from the driver: with
\* return_document AFTER and a replacement that is an instance of the calling
\* class, that object takes the stored post-replace state and is what is
\* returned; in every other case a new record is returned and no record
\* object changes.
C8_ReplaceInPlaceOnlyAfterSameType ==
    [][(last'.op = "find_one_and_replace" /\ last'.raised = "no" /\ last'.found # NoDoc) =>
        LET r == last'.replacement
            doc == last'.found IN
        IF /\ last'.return_document = "AFTER"
           /\ r.kind = "inst"
           /\ issubclass(types, instances[r.inst].cls, last'.cls)
        THEN /\ last'.ret = Ref(r.inst)
             /\ doc.id \in DOMAIN store'
             /\ store'[doc.id] = doc
             /\ instances'[r.inst].cls = instances[r.inst].cls
             /\ instances'[r.inst].id = doc.id
             /\ instances'[r.inst].x = (IF doc.x = Absent THEN Default ELSE doc.x)
             /\ \A j \in Inst \ {r.inst} : instances'[j] = instances[j]
        ELSE /\ last'.ret.kind = "fresh"
             /\ last'.ret.rec = Construct(last'.cls, doc)
             /\ instances' = instances
    ]_vars

\* find_one_and_replace has returned the replacement object itself, which
\* now carries the id of the document it replaced
C8_Witness ==
    /\ last.op = "find_one_and_replace"
    /\ last.raised = "no"
    /\ last.return_document = "AFTER"
    /\ last.ret.kind = "ref"
    /\ last.ret.inst = last.replacement.inst
    /\ instances[last.ret.inst].id = last.found.id

\* C9: no insert, insert_many, update, replace or delete call changes the id
\* of a record whose id is already assigned.
C9_AssignedIdentifierIsStable ==
    [][last'.op \in {"insert", "insert_many", "update", "replace", "delete"} =>
        \A i \in Inst : instances[i].id # None => instances'[i].id = instances[i].id
    ]_vars

\* a replace upserted a replacement that already carried an id, and the
\* record still holds that id
C9_Witness ==
    /\ last.op = "replace"
    /\ last.raised = "no"
    /\ last.upserted_id # None
    /\ last.sent.id # Absent
    /\ instances[last.other].id = last.sent.id

\* C10: when the driver finds no matching document, find_one,
\* find_one_and_delete, find_one_and_update and find_one_and_replace return
\* None and find yields nothing; none of them raises, and no record object
\* changes.
C10_AbsenceIsNullNotError ==
    [][/\ (last'.op \in {"find_one", "find_one_and_delete", "find_one_and_update",
                         "find_one_and_replace"} /\ last'.found = NoDoc) =>
              (last'.raised = "no" /\ last'.ret = NoneRet /\ instances' = instances)
       /\ (last'.op = "find" /\ last'.found = {}) =>
              (last'.raised = "no" /\ last'.ret.recs = {} /\ instances' = instances)
    ]_vars

\* a find_one_and_replace on a non-empty collection matched nothing and
\* returned None
C10_Witness ==
    /\ last.op = "find_one_and_replace"
    /\ last.found = NoDoc
    /\ last.ret = NoneRet
    /\ last.raised = "no"
    /\ store # <<>>

====
